---- MODULE Spec2Model ----
(***************************************************************************)
(* Model of seq2seq/decoders/attention_decoder.py: AttentionDecoder, an    *)
(* RNN decoder with attention, driven by the decode loop of DecoderBase.   *)
(*                                                                         *)
(* Tensors are sequences: a [B, n] tensor is a sequence of B sequences of  *)
(* length n.  Numeric entries are naturals; 0 is the value tf.zeros and    *)
(* tf.pad write, every value a collaborator produces is positive.          *)
(* The collaborators (cell, attention_fn, input_fn, the fully connected    *)
(* layers) are opaque to the decoder; they are modelled by functions whose *)
(* results differ between positions, examples and calls, so that a         *)
(* misplaced or stale value is visible.                                    *)
(***************************************************************************)
EXTENDS Integers, Sequences, FiniteSets, TLC

\* ---------------------------------------------------------------- bounds
BatchSize == 2
MaxSrcLen == 3
MaxPadLen == 3
MaxDecodeLen == 2
FeatDim == 2
InputWidth == 1
CellSize == 1
VocabSize == 2

Batch == 1..BatchSize

VARIABLES
  \* fields set by __init__
  input_fn, vocab_size, attention_inputs, attention_inputs_max_len,
  reverse_scores_lengths, max_decode_length, initial_state,
  \* the decode loop's loop variables
  pc, time_, inputs, state, finished, outputs,
  \* what _build returns
  result,
  \* history: the padded scores of the latest step (local attention_scores
  \* of step before the reversal), and the calls made to input_fn and cell
  padded, inputCalls, cellCalls

config == <<input_fn, vocab_size, attention_inputs, attention_inputs_max_len,
            reverse_scores_lengths, max_decode_length, initial_state>>
vars == <<input_fn, vocab_size, attention_inputs, attention_inputs_max_len,
          reverse_scores_lengths, max_decode_length, initial_state,
          pc, time_, inputs, state, finished, outputs, result,
          padded, inputCalls, cellCalls>>

\* ------------------------------------------------------- tensor helpers
Min(a, b) == IF a <= b THEN a ELSE b

\* tf.zeros([n]) for one example; empty when n <= 0
Zeros(n) == [i \in 1..n |-> 0]

\* tf.concat([a, b], 1) on [B, .] tensors
Concat(a, b) == [b_ \in Batch |-> a[b_] \o b[b_]]

\* x[:n] on one example (Python/TF slice: clipped to the length)
Slice(s, n) == SubSeq(s, 1, Min(n, Len(s)))

RECURSIVE Reverse(_)
Reverse(s) == IF s = <<>> THEN <<>> ELSE Append(Reverse(Tail(s)), Head(s))

AllTrue(f) == \A b \in Batch : f[b]

\* reverse_scores_lengths=None
None == <<>>

\* tf.shape(self.attention_inputs)[1] and .get_shape()[2]
SourceLen == Len(attention_inputs[1])
ContextDim == Len(attention_inputs[1][1])

\* ------------------------------------------------------- collaborators
RECURSIVE SumSeq(_)
SumSeq(s) == IF s = <<>> THEN 0 ELSE Head(s) + SumSeq(Tail(s))

\* self.cell(inputs, state): an RNN cell, a function of its arguments.  The
\* new state is a fresh value: it differs from the state the cell was given,
\* and the cell's output differs from one state to the next.  The record
\* keeps the arguments of the call.
Cell(inp, st) ==
  [inputs      |-> inp,
   state       |-> st,
   cell_output |-> [b \in Batch |-> [j \in 1..CellSize |->
                       10 * st + (SumSeq(inp[b]) % 10) + b]],
   cell_state  |-> st + 1]

\* self.attention_fn(cell_output, attention_inputs): one positive score per
\* source position and a context vector of the feature width.
AttentionFn(cell_output, att_inputs) ==
  [att_scores |->
     [b \in Batch |-> [i \in 1..Len(att_inputs[b]) |->
                          100 * cell_output[b][1] + i]],
   attention_context |->
     [b \in Batch |-> [f \in 1..Len(att_inputs[b][1]) |->
                          att_inputs[b][1][f] + cell_output[b][1]]]]

\* tf.contrib.layers.fully_connected(inputs, num_outputs): a dense layer,
\* a fixed function of its input with num_outputs outputs per example.
FullyConnected(x, num_outputs) ==
  [b \in Batch |-> [j \in 1..num_outputs |-> ((SumSeq(x[b]) * j) % 7) + 1]]

\* default prediction function: index (from 0) of the first largest logit
ArgMax(v) ==
  (CHOOSE i \in 1..Len(v) : /\ \A j \in 1..Len(v) : v[j] <= v[i]
                            /\ \A j \in 1..(i - 1) : v[j] < v[i]) - 1

PredictionFn(logits) == [b \in Batch |-> ArgMax(logits[b])]

\* The finished flags an input function may report: one flag for the whole
\* batch (every example ends at the same time), or one flag per example.
FinishedChoices ==
  IF input_fn = "uniform"
  THEN {[b \in Batch |-> f] : f \in BOOLEAN}
  ELSE [Batch -> BOOLEAN]

\* self.input_fn(time_, initial_call, predictions): the next raw input (the
\* input of that time index) and the finished flags fin the function
\* chooses.  The record keeps the arguments of the call.
InputFn(t, initial_call, predictions, fin) ==
  [time_        |-> t,
   initial_call |-> initial_call,
   predictions  |-> predictions,
   next_inputs  |-> [b \in Batch |-> [j \in 1..InputWidth |-> 10 * (t + 1) + b]],
   finished     |-> fin]

\* ---------------------------------------------------- AttentionDecoder
\* output_size
OutputSize ==
  [logits            |-> vocab_size,
   predicted_ids     |-> <<>>,
   cell_output       |-> CellSize,
   attention_scores  |-> attention_inputs_max_len,
   attention_context |-> ContextDim]

\* mutant: the placeholder sized by the source axis instead of the feature axis
MutEmptyContextSourceAxis == [b \in Batch |-> Zeros(SourceLen)]

\* initialize: the empty attention context concatenated to the first input
EmptyContext == [b \in Batch |-> Zeros(ContextDim)]

\* compute_output
ComputeOutput(cell_output) ==
  LET att == AttentionFn(cell_output, attention_inputs)
      softmax_input ==
        FullyConnected(Concat(cell_output, att.attention_context), CellSize)
      logits == FullyConnected(softmax_input, vocab_size)
  IN [softmax_input     |-> softmax_input,
      logits            |-> logits,
      att_scores        |-> att.att_scores,
      attention_context |-> att.attention_context]

\* _pad_att_scores: tf.pad rejects a negative amount of padding
PadAmount(scores) == attention_inputs_max_len - Len(scores[1])

\* mutant: a negative amount clipped away instead of rejected
MutPadNeverFails(scores) == FALSE

PadFails(scores) == PadAmount(scores) < 0

\* mutant: the zeros written in front of the scores
MutPadLeft(scores) ==
  [b \in Batch |-> Zeros(PadAmount(scores)) \o scores[b]]

PadAttScores(scores) ==
  [b \in Batch |-> scores[b] \o Zeros(PadAmount(scores))]

\* mutant: the first seq_lengths[b] entries rotated instead of reversed
MutRotateSequence(input, seq_lengths) ==
  [b \in Batch |->
     IF seq_lengths[b] = 0
     THEN input[b]
     ELSE SubSeq(input[b], 2, seq_lengths[b]) \o <<input[b][1]>>
            \o SubSeq(input[b], seq_lengths[b] + 1, Len(input[b]))]

\* tf.reverse_sequence(input, seq_lengths, seq_dim=1, batch_dim=0): the
\* first seq_lengths[b] entries of example b reversed, the rest in place
ReverseSequence(input, seq_lengths) ==
  [b \in Batch |->
     Reverse(SubSeq(input[b], 1, seq_lengths[b]))
       \o SubSeq(input[b], seq_lengths[b] + 1, Len(input[b]))]

\* mutant: the whole padded vector reversed, whatever the given lengths
MutReverseWholeVector(attention_scores) ==
  IF reverse_scores_lengths # None
  THEN ReverseSequence(attention_scores,
                       [b \in Batch |-> Len(attention_scores[b])])
  ELSE attention_scores

\* step, lines 174-179: the optional reversal of the padded scores
ReverseScores(attention_scores) ==
  IF reverse_scores_lengths # None
  THEN ReverseSequence(attention_scores, reverse_scores_lengths)
  ELSE attention_scores

\* mutant: the zero placeholder concatenated instead of this step's context
MutNextInputsPlaceholder(next_inputs, attention_context) ==
  Concat(next_inputs, EmptyContext)

\* step, line 194: the context of this step concatenated to the next input
NextInputs(next_inputs, attention_context) ==
  Concat(next_inputs, attention_context)

\* mutant: the state step was given returned instead of the cell's new state
MutStepStateOld(st, cell_state) == st

\* mutant: step reports nobody finished, whatever the input function says
MutStepNeverFinished(fin) == [b \in Batch |-> FALSE]

\* mutant: step itself ends decoding at the maximum length
MutStepFinishedAtMax(fin) ==
  [b \in Batch |-> fin[b] \/ time_ + 1 >= max_decode_length]

\* step, line 196: the state and the finished flags step returns
StepState(st, cell_state) == cell_state

StepFinished(fin) == fin

\* step, lines 181-187: the outputs assembled from the results of
\* compute_output and the padded scores
StepOutputs(co, pad) ==
  [logits            |-> co.logits,
   predicted_ids     |-> PredictionFn(co.logits),
   cell_output       |-> co.softmax_input,
   attention_scores  |-> ReverseScores(pad),
   attention_context |-> co.attention_context]

\* ------------------------------------------------ DecoderBase's loop
\* the loop runs until all examples are finished or the maximum length
LoopContinues == ~AllTrue(finished) /\ time_ < max_decode_length

\* mutant: the slice taken at the feature axis instead of the source axis
MutBuildSliceFeatureAxis(outs) ==
  [t \in 1..Len(outs) |->
     [outs[t] EXCEPT !.attention_scores =
        [b \in Batch |-> Slice(@[b], ContextDim)]]]

\* _build, lines 129-131: the scores of every step sliced to the source length
BuildSlice(outs) ==
  [t \in 1..Len(outs) |->
     [outs[t] EXCEPT !.attention_scores =
        [b \in Batch |-> Slice(@[b], SourceLen)]]]

\* ---------------------------------------------------------------- Init
\* __init__.  reverse_scores_lengths is None or one length per example:
\* any lengths up to attention_inputs_max_len (tf.reverse_sequence accepts no
\* more) with an input function that ends the whole batch at once, or the
\* source length with an input function that ends each example on its own.
Init ==
  /\ input_fn \in {"uniform", "per_example"}
  /\ vocab_size = VocabSize
  /\ \E T \in 1..MaxSrcLen :
       attention_inputs =
         [b \in Batch |-> [t \in 1..T |-> [f \in 1..FeatDim |->
                                              100 * b + 10 * t + f]]]
  /\ attention_inputs_max_len \in 1..MaxPadLen
  /\ reverse_scores_lengths \in
       IF input_fn = "uniform"
       THEN {None} \cup [Batch -> 0..attention_inputs_max_len]
       ELSE {None, [b \in Batch |-> SourceLen]}
  /\ max_decode_length \in 1..MaxDecodeLen
  /\ initial_state = 1
  /\ pc = "start"
  /\ time_ = 0
  /\ inputs = <<>>
  /\ state = 0
  /\ finished = [b \in Batch |-> FALSE]
  /\ outputs = <<>>
  /\ result = <<>>
  /\ padded = <<>>
  /\ inputCalls = <<>>
  /\ cellCalls = <<>>

\* ------------------------------------------------------------- actions
\* initialize, called once by the loop
Initialize ==
  /\ pc = "start"
  /\ \E fin \in FinishedChoices :
       LET call == InputFn(0, TRUE, None, fin)
       IN /\ inputCalls' = Append(inputCalls, call)
          /\ finished' = call.finished
          /\ inputs' = Concat(call.next_inputs, EmptyContext)
  /\ state' = initial_state
  /\ pc' = "loop"
  /\ UNCHANGED <<config, time_, outputs, result, padded, cellCalls>>

\* one iteration of the loop: step, its results becoming the loop variables;
\* fin is the finished flags the input function reports
Step ==
  /\ pc = "loop"
  /\ LoopContinues
  /\ \E fin \in FinishedChoices :
     \E cell \in {Cell(inputs, state)} :
     \E co \in {ComputeOutput(cell.cell_output)} :
       IF PadFails(co.att_scores)
       THEN /\ pc' = "error"
            /\ UNCHANGED <<config, time_, inputs, state, finished, outputs,
                           result, padded, inputCalls, cellCalls>>
       ELSE \E pad \in {PadAttScores(co.att_scores)} :
            \E outs \in {StepOutputs(co, pad)} :
            \E call \in {InputFn(time_ + 1, FALSE, <<outs>>, fin)} :
              /\ outputs' = Append(outputs, outs)
              /\ state' = StepState(state, cell.cell_state)
              /\ inputs' = NextInputs(call.next_inputs, co.attention_context)
              /\ finished' = StepFinished(call.finished)
              /\ time_' = time_ + 1
              /\ padded' = pad
              /\ inputCalls' = Append(inputCalls, call)
              /\ cellCalls' = Append(cellCalls, cell)
              /\ UNCHANGED <<config, pc, result>>

\* _build, after the loop has ended
Build ==
  /\ pc = "loop"
  /\ ~LoopContinues
  /\ result' = BuildSlice(outputs)
  /\ pc' = "built"
  /\ UNCHANGED <<config, time_, inputs, state, finished, outputs,
                 padded, inputCalls, cellCalls>>

Next == Initialize \/ Step \/ Build

Spec == Init /\ [][Next]_vars

\* ---------------------------------------------------------- properties
NumSteps == Len(outputs)
ValidConfig == SourceLen <= attention_inputs_max_len
LastOutputs == outputs[Len(outputs)]
LastCell == cellCalls[Len(cellCalls)]
LastCall == inputCalls[Len(inputCalls)]

\* every score vector the steps returned has the width attention_inputs_max_len
\* and is zero from the source length on
PaddedWithZeros ==
  \A t \in 1..NumSteps : \A b \in Batch :
    /\ Len(outputs[t].attention_scores[b]) = attention_inputs_max_len
    /\ \A i \in (SourceLen + 1)..attention_inputs_max_len :
         outputs[t].attention_scores[b][i] = 0

\* the padded scores start with the raw scores of the attention function
PaddedKeepsRaw ==
  NumSteps >= 1 =>
    \A b \in Batch :
      SubSeq(padded[b], 1, SourceLen) =
        AttentionFn(LastCell.cell_output, attention_inputs).att_scores[b]

ReverseLengthsWithinSource ==
  reverse_scores_lengths # None =>
    \A b \in Batch : reverse_scores_lengths[b] <= SourceLen

\* C1 as stated: for every configuration with source length <=
\* attention_inputs_max_len, with or without reverse_scores_lengths, every
\* step's attention_scores has width attention_inputs_max_len and is zero at
\* every index >= the source length.
C1_PaddedZerosAnyLengths == ValidConfig => PaddedWithZeros

\* C1 amended: the same, for the configurations without
\* reverse_scores_lengths or with every given length <= the source length;
\* before the reversal the padded vector is the raw scores followed by zeros.
C1_PaddedZeros ==
  ValidConfig =>
    /\ PaddedKeepsRaw
    /\ ReverseLengthsWithinSource => PaddedWithZeros

C1_Witness ==
  /\ NumSteps >= 1
  /\ SourceLen < attention_inputs_max_len
  /\ reverse_scores_lengths # None
  /\ ReverseLengthsWithinSource
  /\ \E b \in Batch : reverse_scores_lengths[b] >= 2

\* C2: in a valid configuration output_size.attention_scores is
\* attention_inputs_max_len and is the width of every step's attention_scores,
\* and after _build every step's attention_scores has the source length.
C2_ScoreWidths ==
  ValidConfig =>
    /\ OutputSize.attention_scores = attention_inputs_max_len
    /\ \A t \in 1..NumSteps : \A b \in Batch :
         Len(outputs[t].attention_scores[b]) = OutputSize.attention_scores
    /\ pc = "built" =>
         /\ Len(result) = NumSteps
         /\ \A t \in 1..Len(result) : \A b \in Batch :
              Len(result[t].attention_scores[b]) = SourceLen

C2_Witness ==
  /\ pc = "built"
  /\ Len(result) >= 2
  /\ SourceLen < attention_inputs_max_len
  /\ SourceLen # ContextDim

\* C3: with reverse_scores_lengths, example b's output scores are the padded
\* scores with the first L_b entries in reversed order and the entries from
\* L_b on in place; without it the output scores are the padded scores.
C3_Reversal ==
  NumSteps >= 1 =>
    LET out == LastOutputs.attention_scores
    IN IF reverse_scores_lengths # None
       THEN \A b \in Batch :
              /\ Len(out[b]) = Len(padded[b])
              /\ \A i \in 1..Len(padded[b]) :
                   out[b][i] = IF i <= reverse_scores_lengths[b]
                               THEN padded[b][reverse_scores_lengths[b] + 1 - i]
                               ELSE padded[b][i]
       ELSE out = padded

C3_Witness ==
  /\ NumSteps >= 1
  /\ reverse_scores_lengths # None
  /\ \E b \in Batch :
       /\ reverse_scores_lengths[b] >= 2
       /\ reverse_scores_lengths[b] < SourceLen

\* C4: with reverse_scores_lengths equal to the source length for every
\* example, reversing the scores a step returned once more gives back the
\* scores the step reversed.
C4_RoundTrip ==
  (/\ NumSteps >= 1
   /\ reverse_scores_lengths # None
   /\ \A b \in Batch : reverse_scores_lengths[b] = SourceLen)
  => ReverseScores(LastOutputs.attention_scores) = padded

C4_Witness ==
  /\ NumSteps >= 1
  /\ reverse_scores_lengths # None
  /\ \A b \in Batch : reverse_scores_lengths[b] = SourceLen
  /\ SourceLen >= 3
  /\ LastOutputs.attention_scores # padded

C5_State ==
  /\ ~ValidConfig =>
       /\ outputs = <<>>
       /\ cellCalls = <<>>
       /\ Len(inputCalls) <= 1
       /\ time_ = 0
  /\ ValidConfig => pc # "error"

C5_Step ==
  /\ pc # "error"
  /\ (pc = "loop" /\ LoopContinues /\ ~ValidConfig) =>
       /\ pc' = "error"
       /\ UNCHANGED <<inputs, state, finished, outputs, result>>

\* C5: when the source length exceeds attention_inputs_max_len a step fails
\* in the padding, producing no output, next input or finished flags, and
\* nothing happens after the failure; when the source length is at most
\* attention_inputs_max_len the padding never fails.
C5_PadFailure == []C5_State /\ [][C5_Step]_vars

C5_Witness == pc = "error" /\ inputCalls # <<>>

\* C6: initialize calls the input function once, with time 0, the initial
\* flag and no predictions, and returns that call's finished flags, that
\* call's input followed by one zero per attention feature, and initial_state.
C6_Initialize ==
  pc # "start" =>
    /\ Len(inputCalls) >= 1
    /\ inputCalls[1].time_ = 0
    /\ inputCalls[1].initial_call
    /\ inputCalls[1].predictions = None
    /\ \A k \in 2..Len(inputCalls) : ~inputCalls[k].initial_call
    /\ NumSteps = 0 =>
         /\ finished = inputCalls[1].finished
         /\ state = initial_state
         /\ \A b \in Batch :
              LET raw == inputCalls[1].next_inputs[b]
              IN /\ Len(inputs[b]) = Len(raw) + ContextDim
                 /\ SubSeq(inputs[b], 1, Len(raw)) = raw
                 /\ \A i \in (Len(raw) + 1)..Len(inputs[b]) : inputs[b][i] = 0

C6_Witness == pc = "loop" /\ NumSteps = 0 /\ SourceLen # ContextDim

\* C7: the loop produces at most max_decode_length steps, and no step runs
\* once the input function has reported every example finished.
C7_LoopBound ==
  /\ NumSteps <= max_decode_length
  /\ \A k \in 1..NumSteps : ~AllTrue(inputCalls[k].finished)

C7_Witness ==
  /\ pc = "built"
  /\ NumSteps >= 1
  /\ NumSteps < max_decode_length
  /\ AllTrue(LastCall.finished)

\* the input step number k consumed, and the input left for step k + 1
ConsumedInputs(k) == cellCalls[k].inputs
ProducedInputs(k) == IF k < NumSteps THEN cellCalls[k + 1].inputs ELSE inputs

\* C8: the input step t hands on is the input function's result for time
\* t + 1 and step t's outputs, followed by the context step t computed from
\* its own cell output; the input of step 0 ends with the zero placeholder.
C8_ContextCarried ==
  /\ Len(cellCalls) = NumSteps
  /\ NumSteps >= 1 =>
       ConsumedInputs(1) = Concat(inputCalls[1].next_inputs, EmptyContext)
  /\ \A k \in 1..NumSteps :
       /\ inputCalls[k + 1].time_ = k
       /\ inputCalls[k + 1].predictions = <<outputs[k]>>
       /\ outputs[k].attention_context =
            AttentionFn(cellCalls[k].cell_output,
                        attention_inputs).attention_context
       /\ ProducedInputs(k) =
            Concat(inputCalls[k + 1].next_inputs, outputs[k].attention_context)

C8_Witness ==
  /\ NumSteps >= 2
  /\ outputs[1].attention_context # outputs[2].attention_context

\* C9: the finished flags a step returns are those of the one call it makes
\* to the input function, with time + 1, not the initial call, and the step's
\* outputs; the step adds no termination of its own.
C9_FinishedFromInputFn ==
  /\ pc # "start" => Len(inputCalls) = NumSteps + 1
  /\ NumSteps >= 1 =>
       /\ finished = LastCall.finished
       /\ LastCall.time_ = time_
       /\ ~LastCall.initial_call
       /\ LastCall.predictions = <<LastOutputs>>

C9_Witness ==
  /\ NumSteps >= 1
  /\ time_ = max_decode_length
  /\ ~AllTrue(finished)

C10_StateThreaded ==
  /\ Len(cellCalls) = NumSteps
  /\ pc # "start" =>
       state = IF NumSteps = 0 THEN initial_state ELSE LastCell.cell_state
  /\ \A k \in 1..NumSteps :
       cellCalls[k].state =
         IF k = 1 THEN initial_state ELSE cellCalls[k - 1].cell_state

\* C10: no call changes attention_inputs, attention_inputs_max_len,
\* reverse_scores_lengths or vocab_size, and the state a step returns is the
\* new state of its one cell application: step 0 consumes initial_state and
\* step t + 1 the state produced at step t.
C10_Frame == []C10_StateThreaded /\ [][UNCHANGED config]_vars

C10_Witness ==
  /\ NumSteps >= 2
  /\ cellCalls[2].state # initial_state
====
